---- MODULE Spec2Model ----
(***************************************************************************)
(* GitHubIntegration (src/github-integration.js): a browser client that     *)
(* keeps five JSON documents in a remote contents store and reads, adds,    *)
(* updates, deletes, exports, imports and backs them up by read-modify-     *)
(* write.  Every await of the source is one step of a client.               *)
(*                                                                         *)
(* JavaScript values are tagged tuples: <<"num", n>>, <<"str", s>>,         *)
(* <<"arr", items>>, <<"obj", pairs>> with pairs a sequence of              *)
(* <<key, value>> in insertion order.  JSON text is a sequence of tokens,   *)
(* base64 text is the token text under a "b64" tag.                         *)
(***************************************************************************)
EXTENDS Integers, Sequences, FiniteSets, TLC

VARIABLES
    store,      \* remote store: path -> NoFile or <<"file", base64 text>>
    clock,      \* the millisecond clock read by Date.now()
    faults,     \* remote faults the environment may still inject
    token,      \* token[c]: this.config.token is set
    pc,         \* pc[c]: the await the client is suspended at
    op,         \* op[c]: the method in progress and its arguments
    data,       \* data[c]: the local value being built / saved
    idx,        \* idx[c]: position in the five-document loops
    ret,        \* ret[c]: what the last finished method returned or threw
    sv,         \* sv[c]: requests of the current saveFile invocation
    hist        \* hist[c]: bookkeeping about the method in progress

vars == <<store, clock, faults, token, pc, op, data, idx, ret, sv, hist>>

(***************************************************************************)
(* Bounds                                                                  *)
(***************************************************************************)
MaxOps == 2         \* methods one client starts in a run
MaxFaults == 1      \* remote faults injected in a run
MaxClock == 1       \* clock ticks in a run
MaxBulkOps == 2     \* methods started in a run of the bulk specification
MaxRaceOps == 1     \* methods each client starts in a run of the race specification

Clients == {1, 2}

(***************************************************************************)
(* JavaScript values                                                       *)
(***************************************************************************)
Num(n) == <<"num", n>>
Str(s) == <<"str", s>>
Arr(items) == <<"arr", items>>
Obj(pairs) == <<"obj", pairs>>
Undefined == <<"undefined">>

IsArr(v) == v[1] = "arr"

HasKey(o, k) == \E i \in 1..Len(o[2]) : o[2][i][1] = k

\* o.k : the value of property k, undefined when the object has none
GetKey(o, k) ==
    IF HasKey(o, k)
    THEN o[2][CHOOSE i \in 1..Len(o[2]) : o[2][i][1] = k][2]
    ELSE Undefined

\* o.k = v : an existing key keeps its place, a new key goes last
SetKey(o, k, v) ==
    IF HasKey(o, k)
    THEN Obj([i \in 1..Len(o[2]) |-> IF o[2][i][1] = k THEN <<k, v>> ELSE o[2][i]])
    ELSE Obj(Append(o[2], <<k, v>>))

RECURSIVE SpreadPairs(_, _)
SpreadPairs(o, pairs) ==
    IF Len(pairs) = 0 THEN o
    ELSE SpreadPairs(SetKey(o, Head(pairs)[1], Head(pairs)[2]), Tail(pairs))

\* { ...a, ...b }
Spread(a, b) == SpreadPairs(a, b[2])

\* JavaScript truthiness of the values the model uses
Truthy(v) ==
    CASE v[1] = "undefined" -> FALSE
      [] v[1] = "num" -> v[2] # 0
      [] v[1] = "str" -> v[2] # ""
      [] OTHER -> TRUE

(***************************************************************************)
(* JSON.stringify / JSON.parse and btoa / atob                              *)
(***************************************************************************)
RECURSIVE Stringify(_), StringifyItems(_), StringifyPairs(_)
StringifyItems(items) ==
    IF Len(items) = 0 THEN <<>>
    ELSE Stringify(Head(items)) \o StringifyItems(Tail(items))
StringifyPairs(pairs) ==
    IF Len(pairs) = 0 THEN <<>>
    ELSE <<(<<"key", Head(pairs)[1]>>)>> \o Stringify(Head(pairs)[2])
             \o StringifyPairs(Tail(pairs))
Stringify(v) ==
    CASE v[1] = "arr" -> <<(<<"[">>)>> \o StringifyItems(v[2]) \o <<(<<"]">>)>>
      [] v[1] = "obj" -> <<(<<"{">>)>> \o StringifyPairs(v[2]) \o <<(<<"}">>)>>
      [] OTHER -> <<v>>

ParseFail == [ok |-> FALSE]

RECURSIVE ParseValue(_), ParseItems(_, _), ParseMembers(_, _)
ParseValue(t) ==
    IF Len(t) = 0 THEN ParseFail
    ELSE CASE Head(t)[1] \in {"num", "str"} ->
                  [ok |-> TRUE, val |-> Head(t), rest |-> Tail(t)]
           [] Head(t)[1] = "[" -> ParseItems(Tail(t), <<>>)
           [] Head(t)[1] = "{" -> ParseMembers(Tail(t), Obj(<<>>))
           [] OTHER -> ParseFail
ParseItems(t, acc) ==
    IF Len(t) = 0 THEN ParseFail
    ELSE IF Head(t)[1] = "]"
         THEN [ok |-> TRUE, val |-> Arr(acc), rest |-> Tail(t)]
         ELSE LET r == ParseValue(t)
              IN  IF r.ok THEN ParseItems(r.rest, Append(acc, r.val)) ELSE ParseFail
ParseMembers(t, acc) ==
    IF Len(t) = 0 THEN ParseFail
    ELSE IF Head(t)[1] = "}"
         THEN [ok |-> TRUE, val |-> acc, rest |-> Tail(t)]
         ELSE IF Head(t)[1] # "key" THEN ParseFail
         ELSE LET r == ParseValue(Tail(t))
              IN  IF r.ok
                  THEN ParseMembers(r.rest, SetKey(acc, Head(t)[2], r.val))
                  ELSE ParseFail

\* JSON.parse(text): the value, or a SyntaxError
JsonParse(text) ==
    LET r == ParseValue(text)
    IN  IF r.ok /\ Len(r.rest) = 0 THEN [ok |-> TRUE, val |-> r.val] ELSE ParseFail

\* the text of a SyntaxError names the offending text and its position: it
\* holds "404" when the text does (a "junk" token records whether it does)
SyntaxErrorHas404(text) ==
    \E i \in 1..Len(text) : text[i][1] = "junk" /\ text[i][2]

Btoa(text) == <<"b64", text>>
Atob(b64) == b64[2]

(***************************************************************************)
(* Documents and their built-in defaults                                   *)
(***************************************************************************)
ProductsPath == <<"data/products.json">>
CategoriesPath == <<"data/categories.json">>
OrdersPath == <<"data/orders.json">>
ContactsPath == <<"data/contacts.json">>
WebsitePath == <<"data/website.json">>

\* the order in which exportData, backupData and importData go through them
DataPaths == <<ProductsPath, CategoriesPath, OrdersPath, ContactsPath, WebsitePath>>
SnapshotKeys == <<"products", "categories", "orders", "contacts", "website">>
SeqPaths == {ProductsPath, CategoriesPath, OrdersPath, ContactsPath}

DateNow(t) == 1700 + t
\* `backups/backup-${Date.now()}.json`
BackupPath(now) == <<"backups/backup-", now>>
BackupPaths == {BackupPath(DateNow(t)) : t \in 0..MaxClock}
Paths == {DataPaths[i] : i \in 1..5} \cup BackupPaths

DefaultProduct(id, name, categoryId, price, stock, discount, image, description) ==
    Obj(<< <<"id", Num(id)>>, <<"name", Str(name)>>, <<"categoryId", Num(categoryId)>>,
           <<"price", Num(price)>>, <<"stock", Num(stock)>>, <<"discount", Num(discount)>>,
           <<"image", Str(image)>>, <<"description", Str(description)>> >>)

DefaultCategory(id, name, description) ==
    Obj(<< <<"id", Num(id)>>, <<"name", Str(name)>>, <<"description", Str(description)>> >>)

Null == <<"null">>

getDefaultData(path) ==
    CASE path = ProductsPath -> Arr(<<
            DefaultProduct(1, "Roti Tawar Premium", 1, 25000, 50, 0,
                "https://images.unsplash.com/photo-1509440159596-0249088772ff?ixlib=rb-4.0.3&ixid=M3wxMjA3fDB8MHxwaG90by1wYWdlfHx8fGVufDB8fHx8fA%3D%3D&auto=format&fit=crop&w=1000&q=80",
                "Roti tawar lembut dengan kualitas premium"),
            DefaultProduct(2, "Croissant Butter", 1, 18000, 30, 10,
                "https://images.unsplash.com/photo-1555507032-abfa424c5b2d?ixlib=rb-4.0.3&ixid=M3wxMjA3fDB8MHxwaG90by1wYWdlfHx8fGVufDB8fHx8fA%3D%3D&auto=format&fit=crop&w=1000&q=80",
                "Croissant butter yang renyah dan lezat"),
            DefaultProduct(3, "Donat Glaze", 2, 12000, 25, 0,
                "https://images.unsplash.com/photo-1551024601-bec78aea704b?ixlib=rb-4.0.3&ixid=M3wxMjA3fDB8MHxwaG90by1wYWdlfHx8fGVufDB8fHx8fA%3D%3D&auto=format&fit=crop&w=1000&q=80",
                "Donat dengan glaze manis"),
            DefaultProduct(4, "Brownies Coklat", 2, 35000, 20, 15,
                "https://images.unsplash.com/photo-1606313564200-e75d5e30476c?ixlib=rb-4.0.3&ixid=M3wxMjA3fDB8MHxwaG90by1wYWdlfHx8fGVufDB8fHx8fA%3D%3D&auto=format&fit=crop&w=1000&q=80",
                "Brownies coklat yang lembut dan moist"),
            DefaultProduct(5, "French Baguette", 1, 22000, 15, 0,
                "https://images.unsplash.com/photo-1586444248902-2f64eddc13df?ixlib=rb-4.0.3&ixid=M3wxMjA3fDB8MHxwaG90by1wYWdlfHx8fGVufDB8fHx8fA%3D%3D&auto=format&fit=crop&w=1000&q=80",
                "Baguette Perancis yang autentik") >>)
      [] path = CategoriesPath -> Arr(<<
            DefaultCategory(1, "Roti", "Berbagai macam roti segar"),
            DefaultCategory(2, "Kue", "Aneka kue manis dan lezat"),
            DefaultCategory(3, "Pastry", "Pastry premium dengan rasa internasional") >>)
      [] path = OrdersPath -> Arr(<<>>)
      [] path = ContactsPath -> Arr(<<>>)
      [] path = WebsitePath -> Obj(<<
            <<"name", Str("DJANDES Bakery")>>,
            <<"email", Str("info@djandesbakery.com")>>,
            <<"phone", Str("+62 21 1234 5678")>>,
            <<"address", Str("Jl. Bakery No. 123, Jakarta, Indonesia")>>,
            <<"description", Str("DJANDES Bakery telah melayani pelanggan sejak 2010 dengan komitmen untuk memberikan produk roti dan kue berkualitas tinggi.")>> >>)
      [] OTHER -> Null

(***************************************************************************)
(* The synchronous part of each entity method                              *)
(***************************************************************************)
\* index of the first element whose id === id, 0 for findIndex's -1
findIndex(arr, id) ==
    LET hits == {i \in 1..Len(arr[2]) : GetKey(arr[2][i], "id") = id}
    IN  IF hits = {} THEN 0 ELSE CHOOSE i \in hits : \A j \in hits : i <= j

push(arr, v) == Arr(Append(arr[2], v))

\* faulty variant: { ...productData, id: Date.now() }
newRecordIdLast(now, recordData) == Spread(recordData, Obj(<< <<"id", Num(now)>> >>))

\* { id: Date.now(), ...productData }
newRecord(now, recordData) == Spread(Obj(<< <<"id", Num(now)>> >>), recordData)

\* faulty variant: products.unshift(newProduct)
addProductUnshift(products, productData, now) ==
    Arr(<<newRecord(now, productData)>> \o products[2])

\* addProduct / addCategory: lines 217-221, 253-257
addProduct(products, productData, now) == push(products, newRecord(now, productData))

\* saveOrder / saveContact: lines 289, 314
saveOrder(orders, orderData) == push(orders, orderData)

\* faulty variant: products[index] = productData
updateProductReplace(products, index, productData) ==
    Arr([products[2] EXCEPT ![index] = productData])

\* updateProduct / updateCategory: line 232, 268
updateProduct(products, index, productData) ==
    Arr([products[2] EXCEPT ![index] = Spread(@, productData)])

\* updateOrderStatus: line 300
updateOrderStatus(orders, index, newStatus) ==
    Arr([orders[2] EXCEPT ![index] = SetKey(@, "status", newStatus)])

RECURSIVE filterOut(_, _)
filterOut(items, id) ==
    IF Len(items) = 0 THEN <<>>
    ELSE IF GetKey(Head(items), "id") # id
         THEN <<Head(items)>> \o filterOut(Tail(items), id)
         ELSE filterOut(Tail(items), id)

\* faulty variant: products.splice(products.findIndex(p => p.id === productId), 1)
deleteProductFirst(products, id) ==
    LET i == findIndex(products, id)
    IN  IF i = 0 THEN products
        ELSE Arr(SubSeq(products[2], 1, i - 1)
                   \o SubSeq(products[2], i + 1, Len(products[2])))

\* deleteProduct / deleteCategory / deleteContact: lines 239, 275, 321
deleteProduct(products, id) == Arr(filterOut(products[2], id))

(***************************************************************************)
(* The remote contents store (GET / PUT / POST of a path)                  *)
(***************************************************************************)
NoFile == <<"none">>
File(b64) == <<"file", b64>>
\* the concurrency token of a document: a collision-free hash of its content
Sha(b64) == <<"sha", b64>>

NoBody == [content |-> Undefined, sha |-> Undefined]

Response(status, msg404, content) ==
    [status |-> status, msg404 |-> msg404, content |-> content]

\* what the store answers and becomes; msg404: the message text holds "404"
StoreAnswer(st, path, body) ==
    IF body = NoBody
    THEN IF st[path] = NoFile
         THEN [resp |-> Response(404, FALSE, Undefined), store |-> st]
         ELSE [resp |-> Response(200, FALSE, st[path][2]), store |-> st]
    ELSE IF body.sha = Undefined
         THEN IF st[path] = NoFile
              THEN [resp |-> Response(201, FALSE, body.content),
                    store |-> [st EXCEPT ![path] = File(body.content)]]
              ELSE [resp |-> Response(422, FALSE, Undefined), store |-> st]
         ELSE IF st[path] # NoFile /\ Sha(st[path][2]) = body.sha
              THEN [resp |-> Response(200, FALSE, body.content),
                    store |-> [st EXCEPT ![path] = File(body.content)]]
              ELSE [resp |-> Response(409, FALSE, Undefined), store |-> st]

\* every answer fetch can get: the store's own, and while the environment
\* has faults left, a transient 500 or an error whose text holds "404"
Fetch(st, left, path, body) ==
    LET a == StoreAnswer(st, path, body)
    IN  {[resp |-> a.resp, store |-> a.store, cost |-> 0]}
        \cup (IF left > 0
              THEN {[resp |-> Response(500, f, Undefined), store |-> st, cost |-> 1]
                       : f \in BOOLEAN}
                   \cup (IF a.resp.status \in {409, 422}
                         THEN {[resp |-> Response(a.resp.status, TRUE, Undefined),
                                store |-> a.store, cost |-> 1]}
                         ELSE {})
              ELSE {})

(***************************************************************************)
(* Errors: what the code reads of a thrown Error is whether its message    *)
(* includes "404"                                                          *)
(***************************************************************************)
Error(kind, status, msg404) ==
    [kind |-> kind, status |-> status, msg404 |-> msg404, prefix |-> ""]
NoError == Error("none", 0, FALSE)
ConfigError == Error("GitHub token not configured", 0, FALSE)
RemoteError(status, msg404) == Error("GitHub API Error", status, msg404)
SyntaxError(msg404) == Error("SyntaxError", 0, msg404)
TypeError == Error("TypeError", 0, FALSE)
NotFoundError == Error("not found", 0, FALSE)
ValidationError == Error("Invalid import data format", 0, FALSE)

\* error.message.includes('404')
MessageIncludes404(e) ==
    (e.kind = "GitHub API Error" /\ e.status = 404) \/ e.msg404

\* new Error(`Failed to ...: ${error.message}`)
Wrap(prefix, e) == [e EXCEPT !.prefix = prefix]

\* makeRequest: lines 38-67
makeRequest(hasToken, st, left, path, body) ==
    IF ~hasToken
    THEN {[thrown |-> TRUE, err |-> ConfigError, status |-> 0,
           content |-> Undefined, store |-> st, cost |-> 0]}
    ELSE {[thrown |-> ~(f.resp.status \in 200..299),
           err |-> IF f.resp.status \in 200..299 THEN NoError
                   ELSE RemoteError(f.resp.status, f.resp.msg404),
           status |-> f.resp.status,
           content |-> f.resp.content, store |-> f.store, cost |-> f.cost]
             : f \in Fetch(st, left, path, body)}

Value(v) == [thrown |-> FALSE, val |-> v, err |-> NoError]
Thrown(e) == [thrown |-> TRUE, val |-> Undefined, err |-> e]

\* faulty variant: a missing document reads as an empty list
getFileCatchEmpty(path, e) ==
    IF MessageIncludes404(e) THEN Value(Arr(<<>>)) ELSE Thrown(e)

\* the catch clause of getFile: lines 77-83
getFileCatch(path, e) ==
    IF MessageIncludes404(e) THEN Value(getDefaultData(path)) ELSE Thrown(e)

\* getFile on the outcome of its makeRequest: lines 72-84
getFile(path, out) ==
    IF out.thrown THEN getFileCatch(path, out.err)
    ELSE LET text == Atob(out.content)
             parsed == JsonParse(text)
         IN  IF parsed.ok THEN Value(parsed.val)
             ELSE getFileCatch(path, SyntaxError(SyntaxErrorHas404(text)))

\* getFile answered with the built-in default in place of the document
getFileFellBack(path, out) ==
    /\ ~getFile(path, out).thrown
    /\ out.thrown \/ ~JsonParse(Atob(out.content)).ok

\* a failing remote call: any call that threw, but for the 404 a GET of a
\* missing document is answered with
FailingCall(st, path, body, out) ==
    out.thrown /\ ~(body = NoBody /\ st[path] = NoFile /\ out.status = 404
                    /\ ~out.err.msg404)

\* what a read of path returns when its call does not fail
ReadOf(st, path) ==
    getFile(path, CHOOSE out \in makeRequest(TRUE, st, 0, path, NoBody) : TRUE)

(***************************************************************************)
(* Method continuations.  l is the client's local state                    *)
(* [pc, data, idx, ret, sv]; o is the method in progress.                  *)
(***************************************************************************)
True == <<"bool", TRUE>>

Getters == {"getProducts", "getCategories", "getOrders", "getContacts", "getWebsiteConfig"}
Adders == {"addProduct", "addCategory"}
Savers == {"saveOrder", "saveContact"}
Updaters == {"updateProduct", "updateCategory"}
Deleters == {"deleteProduct", "deleteCategory", "deleteContact"}
Bulk == {"exportData", "backupData", "importData"}

Prefix(o) ==
    CASE o.name = "exportData" -> "Failed to export data: "
      [] o.name = "backupData" -> "Failed to create backup: "
      [] o.name = "importData" -> "Failed to import data: "
      [] OTHER -> ""

NoSave == [path |-> <<"">>, content |-> Undefined, sha |-> Undefined, log |-> <<>>]

Returned(l, v) == [l EXCEPT !.pc = "done", !.ret = Value(v)]
Threw(o, l, e) == [l EXCEPT !.pc = "done", !.ret = Thrown(Wrap(Prefix(o), e))]

\* saveFile up to its first await: lines 89-95
saveFileBegin(l, path, value) ==
    [l EXCEPT !.pc = "saveGet", !.data = value,
              !.sv = [path |-> path, content |-> Btoa(Stringify(value)),
                      sha |-> Undefined, log |-> l.sv.log]]

\* the method from the return of its getFile to its next await
afterGetFile(o, l, r, now) ==
    IF r.thrown THEN Threw(o, l, r.err)
    ELSE CASE o.name \in Getters -> Returned(l, r.val)
           [] o.name \in Adders ->
                IF ~IsArr(r.val) THEN Threw(o, l, TypeError)
                ELSE saveFileBegin(l, o.path, addProduct(r.val, o.arg, now))
           [] o.name \in Savers ->
                IF ~IsArr(r.val) THEN Threw(o, l, TypeError)
                ELSE saveFileBegin(l, o.path, saveOrder(r.val, o.arg))
           [] o.name \in Updaters \cup {"updateOrderStatus"} ->
                IF ~IsArr(r.val) THEN Threw(o, l, TypeError)
                ELSE LET index == findIndex(r.val, o.id)
                     IN  IF index = 0 THEN Threw(o, l, NotFoundError)
                         ELSE saveFileBegin([l EXCEPT !.idx = index], o.path,
                                  IF o.name = "updateOrderStatus"
                                  THEN updateOrderStatus(r.val, index, o.arg)
                                  ELSE updateProduct(r.val, index, o.arg))
           [] o.name \in Deleters ->
                IF ~IsArr(r.val) THEN Threw(o, l, TypeError)
                ELSE saveFileBegin(l, o.path, deleteProduct(r.val, o.id))
           [] o.name \in {"exportData", "backupData"} ->
                LET snap == SetKey(l.data, SnapshotKeys[l.idx], r.val)
                IN  IF l.idx < 5 THEN [l EXCEPT !.data = snap, !.idx = @ + 1]
                    ELSE IF o.name = "exportData"
                         THEN Returned([l EXCEPT !.data = snap], snap)
                         ELSE saveFileBegin(l, BackupPath(now), snap)

\* the next document importData writes after the idx-th: lines 498-511
nextImport(payload, i) ==
    LET later == {j \in (i + 1)..5 : j <= 2 \/ Truthy(GetKey(payload, SnapshotKeys[j]))}
    IN  IF later = {} THEN 0 ELSE CHOOSE j \in later : \A k \in later : j <= k

\* the method from the return of its saveFile on
afterSaveFile(o, l) ==
    CASE o.name \in Adders -> Returned(l, l.data[2][Len(l.data[2])])
      [] o.name \in Savers -> Returned(l, o.arg)
      [] o.name \in Updaters \cup {"updateOrderStatus"} -> Returned(l, l.data[2][l.idx])
      [] o.name \in Deleters -> Returned(l, True)
      [] o.name = "updateWebsiteConfig" -> Returned(l, o.arg)
      [] o.name = "backupData" ->
            Returned(l, Obj(<< <<"success", True>>, <<"path", <<"path", l.sv.path>> >>,
                               <<"timestamp", GetKey(l.data, "timestamp")>> >>))
      [] o.name = "importData" ->
            LET j == nextImport(o.arg, l.idx)
            IN  IF j = 0
                THEN Returned(l, Obj(<< <<"success", True>>,
                                        <<"message", Str("Data imported successfully")>> >>))
                ELSE saveFileBegin([l EXCEPT !.idx = j], DataPaths[j],
                                   GetKey(o.arg, SnapshotKeys[j]))

\* saveFile from the return of its existence check on: lines 95-112
afterSaveGet(o, l, out) ==
    IF out.thrown
    THEN IF MessageIncludes404(out.err) THEN [l EXCEPT !.pc = "savePost"]
         ELSE Threw(o, l, out.err)
    ELSE [l EXCEPT !.pc = "savePut", !.sv.sha = Sha(out.content)]

afterSavePut(o, l, out) ==
    IF out.thrown
    THEN IF MessageIncludes404(out.err) THEN [l EXCEPT !.pc = "savePost"]
         ELSE Threw(o, l, out.err)
    ELSE afterSaveFile(o, l)

afterSavePost(o, l, out) ==
    IF out.thrown THEN Threw(o, l, out.err) ELSE afterSaveFile(o, l)

(***************************************************************************)
(* Steps                                                                   *)
(***************************************************************************)
Local(c) == [pc |-> pc[c], data |-> data[c], idx |-> idx[c], ret |-> ret[c], sv |-> sv[c]]

SetLocal(c, l) ==
    /\ pc' = [pc EXCEPT ![c] = l.pc]
    /\ data' = [data EXCEPT ![c] = l.data]
    /\ idx' = [idx EXCEPT ![c] = l.idx]
    /\ ret' = [ret EXCEPT ![c] = l.ret]
    /\ sv' = [sv EXCEPT ![c] = l.sv]

Running(c) == pc[c] \notin {"idle", "done"}

NoGetFile == [status |-> 0, fellBack |-> FALSE, thrown |-> FALSE, val |-> Undefined]

\* one request of client c went out and was answered by out
Request(c, method, path, body, out, l, gf) ==
    /\ store' = out.store
    /\ faults' = faults - out.cost
    /\ hist' = [d \in Clients |->
                 IF d = c
                 THEN [hist[c] EXCEPT
                         !.writes = IF method = "GET" THEN @ ELSE @ + 1,
                         !.failed = @ \/ FailingCall(store, path, body, out),
                         !.gf = gf,
                         !.backups = IF l.pc = "done" /\ ~l.ret.thrown
                                        /\ op[c].name = "backupData"
                                     THEN @ + 1 ELSE @]
                 ELSE [hist[d] EXCEPT
                         !.raced = @ \/ (Running(d) /\ out.store # store
                                          /\ op[d].path \in {path, <<"*">>})]]
    /\ SetLocal(c, l)
    /\ UNCHANGED <<clock, token, op>>

\* the await of getFile's makeRequest: line 74
GetFileStep(c) ==
    /\ pc[c] = "getFile"
    /\ LET path == IF op[c].name \in Bulk THEN DataPaths[idx[c]] ELSE op[c].path
       IN  \E out \in makeRequest(token[c], store, faults, path, NoBody) :
             LET r == getFile(path, out)
                 l == afterGetFile(op[c], Local(c), r, DateNow(clock))
             IN  Request(c, "GET", path, NoBody, out, l,
                         [status |-> out.status, thrown |-> r.thrown,
                          fellBack |-> getFileFellBack(path, out), val |-> r.val])

\* the requests of the latest saveFile invocation, for the properties
Logged(l, log, method, out) ==
    [l EXCEPT !.sv.log = Append(log, [m |-> method, status |-> out.status,
                                      has404 |-> MessageIncludes404(out.err)])]

\* the await of saveFile's existence check: line 95
SaveGetStep(c) ==
    /\ pc[c] = "saveGet"
    /\ \E out \in makeRequest(token[c], store, faults, sv[c].path, NoBody) :
         Request(c, "GET", sv[c].path, NoBody, out,
                 Logged(afterSaveGet(op[c], Local(c), out), <<>>, "GET", out),
                 hist[c].gf)

\* the await of saveFile's update: lines 98-102
SavePutStep(c) ==
    /\ pc[c] = "savePut"
    /\ LET body == [content |-> sv[c].content, sha |-> sv[c].sha]
       IN  \E out \in makeRequest(token[c], store, faults, sv[c].path, body) :
             Request(c, "PUT", sv[c].path, body, out,
                     Logged(afterSavePut(op[c], Local(c), out), sv[c].log, "PUT", out),
                     hist[c].gf)

\* the await of saveFile's create: lines 106-109
SavePostStep(c) ==
    /\ pc[c] = "savePost"
    /\ LET body == [content |-> sv[c].content, sha |-> Undefined]
       IN  \E out \in makeRequest(token[c], store, faults, sv[c].path, body) :
             Request(c, "POST", sv[c].path, body, out,
                     Logged(afterSavePost(op[c], Local(c), out), sv[c].log, "POST", out),
                     hist[c].gf)

(***************************************************************************)
(* Calls: what callers pass in                                             *)
(***************************************************************************)
ProductInputs ==
    { Obj(<< <<"name", Str("Roti")>>, <<"categoryId", Num(1)>>, <<"price", Num(1000)>>,
             <<"stock", Num(5)>>, <<"discount", Num(0)>> >>),
      Obj(<< <<"name", Str("Bolu")>>, <<"id", Num(2)>> >>),
      Obj(<< <<"id", Str("p-1")>> >>) }
CategoryInputs ==
    { Obj(<< <<"name", Str("Minuman")>> >>),
      Obj(<< <<"id", Num(1)>>, <<"name", Str("Roti Manis")>> >>) }
OrderInputs ==
    { Obj(<< <<"id", Num(1)>>, <<"status", Str("pending")>>, <<"total", Num(5000)>> >>),
      Obj(<< <<"id", Num(2)>>, <<"status", Str("pending")>> >>),
      Obj(<< <<"customer", Str("Ani")>> >>) }
ContactInputs ==
    { Obj(<< <<"id", Num(1)>>, <<"name", Str("Ani")>> >>),
      Obj(<< <<"id", Num(2)>>, <<"message", Str("Halo")>> >>) }
Ids == {Num(1), Num(2), Num(DateNow(0)), Str("1")}
Patches ==
    { Obj(<< <<"price", Num(2000)>> >>),
      Obj(<< <<"id", Num(2)>>, <<"name", Str("Ganti")>> >>) }
Statuses == {Str("done")}
WebsiteInputs == { Obj(<< <<"name", Str("Toko")>> >>), Obj(<<>>) }

Timestamp(t) == <<"date", DateNow(t)>>

Method(name, path, arg, id) == [name |-> name, path |-> path, arg |-> arg, id |-> id]

\* client c calls method o; l is the method up to its first await
Call(c, o, l) ==
    /\ ~Running(c)
    /\ hist[c].left > 0
    /\ op' = [op EXCEPT ![c] = o]
    /\ hist' = [hist EXCEPT ![c] =
                 [@ EXCEPT !.left = @ - 1, !.pre = store, !.writes = 0,
                           !.failed = FALSE, !.raced = FALSE, !.gf = NoGetFile,
                           !.rt = o.name = "importData" /\ op[c].name = "exportData"
                                    /\ ~ret[c].thrown /\ o.arg = ret[c].val
                                    /\ ~hist[c].failed /\ ~hist[c].raced,
                           !.pre0 = IF o.name = "importData" THEN hist[c].pre ELSE store]]
    /\ SetLocal(c, l)
    /\ UNCHANGED <<store, clock, faults, token>>

Fresh(c) == [Local(c) EXCEPT !.pc = "getFile", !.data = Undefined, !.idx = 0,
                             !.ret = Value(Undefined), !.sv = NoSave]

GetDocument(c) ==
    \E i \in 1..5 :
      Call(c, Method(CASE i = 1 -> "getProducts" [] i = 2 -> "getCategories"
                       [] i = 3 -> "getOrders" [] i = 4 -> "getContacts"
                       [] i = 5 -> "getWebsiteConfig",
                     DataPaths[i], Undefined, Undefined), Fresh(c))

AddProduct(c) ==
    \E r \in ProductInputs :
      Call(c, Method("addProduct", ProductsPath, r, Undefined), Fresh(c))
AddCategory(c) ==
    \E r \in CategoryInputs :
      Call(c, Method("addCategory", CategoriesPath, r, Undefined), Fresh(c))
SaveOrder(c) ==
    \E r \in OrderInputs :
      Call(c, Method("saveOrder", OrdersPath, r, Undefined), Fresh(c))
SaveContact(c) ==
    \E r \in ContactInputs :
      Call(c, Method("saveContact", ContactsPath, r, Undefined), Fresh(c))
UpdateProduct(c) ==
    \E id \in Ids, r \in Patches :
      Call(c, Method("updateProduct", ProductsPath, r, id), Fresh(c))
UpdateCategory(c) ==
    \E id \in Ids, r \in Patches :
      Call(c, Method("updateCategory", CategoriesPath, r, id), Fresh(c))
UpdateOrderStatus(c) ==
    \E id \in Ids, s \in Statuses :
      Call(c, Method("updateOrderStatus", OrdersPath, s, id), Fresh(c))
DeleteProduct(c) ==
    \E id \in Ids :
      Call(c, Method("deleteProduct", ProductsPath, Undefined, id), Fresh(c))
DeleteCategory(c) ==
    \E id \in Ids :
      Call(c, Method("deleteCategory", CategoriesPath, Undefined, id), Fresh(c))
DeleteContact(c) ==
    \E id \in Ids :
      Call(c, Method("deleteContact", ContactsPath, Undefined, id), Fresh(c))

\* updateWebsiteConfig: lines 333-336
UpdateWebsiteConfig(c) ==
    \E w \in WebsiteInputs :
      Call(c, Method("updateWebsiteConfig", WebsitePath, w, Undefined),
           saveFileBegin(Fresh(c), WebsitePath, w))

Snapshot0(t) == Obj(<< <<"timestamp", Timestamp(t)>> >>)

\* exportData, backupData up to the first getFile: lines 474-476, 402-404
ExportData(c) ==
    Call(c, Method("exportData", <<"*">>, Undefined, Undefined),
         [Fresh(c) EXCEPT !.data = Snapshot0(clock), !.idx = 1])
BackupData(c) ==
    Call(c, Method("backupData", <<"*">>, Undefined, Undefined),
         [Fresh(c) EXCEPT !.data = Snapshot0(clock), !.idx = 1])

Payloads ==
    { Obj(<< <<"products", Arr(<<>>)>>, <<"categories", Arr(<<>>)>> >>),
      Obj(<< <<"categories", Arr(<<>>)>>, <<"orders", Arr(<<>>)>> >>),
      Obj(<< <<"products", Arr(<< Obj(<< <<"id", Num(7)>> >>) >>)>>,
             <<"website", Obj(<< <<"name", Str("Toko")>> >>)>> >>) }

\* faulty variant: if (!importData.products.length || !importData.categories.length)
importDataBeginNonEmpty(o, l) ==
    IF ~Truthy(GetKey(o.arg, "products")) \/ ~Truthy(GetKey(o.arg, "categories"))
       \/ Len(GetKey(o.arg, "products")[2]) = 0
       \/ Len(GetKey(o.arg, "categories")[2]) = 0
    THEN Threw(o, l, ValidationError)
    ELSE saveFileBegin([l EXCEPT !.idx = 1], ProductsPath, GetKey(o.arg, "products"))

\* importData up to the first saveFile: lines 494-498
importDataBegin(o, l) ==
    IF ~Truthy(GetKey(o.arg, "products")) \/ ~Truthy(GetKey(o.arg, "categories"))
    THEN Threw(o, l, ValidationError)
    ELSE saveFileBegin([l EXCEPT !.idx = 1], ProductsPath, GetKey(o.arg, "products"))

ImportData(c) ==
    \E payload \in Payloads \cup
                   (IF op[c].name = "exportData" /\ pc[c] = "done" /\ ~ret[c].thrown
                    THEN {ret[c].val} ELSE {}) :
      LET o == Method("importData", <<"*">>, payload, Undefined)
      IN  Call(c, o, importDataBegin(o, Fresh(c)))

\* a millisecond passes
Tick ==
    /\ clock < MaxClock
    /\ clock' = clock + 1
    /\ UNCHANGED <<store, faults, token, pc, op, data, idx, ret, sv, hist>>

(***************************************************************************)
(* Initial states and specifications                                       *)
(***************************************************************************)
Saved(value) == File(Btoa(Stringify(value)))
\* a document that is not JSON; the flag: the parser's message holds "404"
Garbled(has404) == File(Btoa(<< <<"junk", has404>> >>))

EmptyStore == [p \in Paths |-> NoFile]

\* a repository other sessions have written to
UsedStore ==
    [p \in Paths |->
       CASE p = ProductsPath ->
              Saved(Arr(<< Obj(<< <<"id", Num(1)>>, <<"name", Str("Roti")>>,
                                  <<"price", Num(1000)>> >>),
                           Obj(<< <<"id", Num(2)>>, <<"name", Str("Kue")>> >>) >>))
         [] p = CategoriesPath -> Garbled(TRUE)
         [] p = OrdersPath ->
              Saved(Arr(<< Obj(<< <<"id", Num(1)>>, <<"status", Str("pending")>> >>) >>))
         [] p = ContactsPath -> Garbled(FALSE)
         [] OTHER -> NoFile]

\* a repository whose sequences were emptied
ClearedStore ==
    [p \in Paths |->
       CASE p \in SeqPaths -> Saved(Arr(<<>>))
         [] p = WebsitePath -> Saved(Obj(<<>>))
         [] OTHER -> NoFile]

NoMethod == Method("none", <<"">>, Undefined, Undefined)

InitWith(stores, tokens, nfaults, budget) ==
    /\ store \in stores
    /\ clock = 0
    /\ faults = nfaults
    /\ token \in tokens
    /\ pc = [c \in Clients |-> "idle"]
    /\ op = [c \in Clients |-> NoMethod]
    /\ data = [c \in Clients |-> Undefined]
    /\ idx = [c \in Clients |-> 0]
    /\ ret = [c \in Clients |-> Value(Undefined)]
    /\ sv = [c \in Clients |-> NoSave]
    /\ hist = [c \in Clients |->
                 [left |-> budget[c], pre |-> store, pre0 |-> store, writes |-> 0,
                  failed |-> FALSE, raced |-> FALSE, backups |-> 0, rt |-> FALSE,
                  gf |-> NoGetFile]]

Steps(c) == GetFileStep(c) \/ SaveGetStep(c) \/ SavePutStep(c) \/ SavePostStep(c)

\* one client, every entity method, remote faults
Init ==
    InitWith({EmptyStore, UsedStore},
             {t \in [Clients -> BOOLEAN] : t[2]}, MaxFaults,
             [c \in Clients |-> IF c = 1 THEN MaxOps ELSE 0])

Next ==
    \/ \E c \in Clients :
         \/ GetDocument(c)
         \/ AddProduct(c) \/ AddCategory(c) \/ SaveOrder(c) \/ SaveContact(c)
         \/ UpdateProduct(c) \/ UpdateCategory(c) \/ UpdateOrderStatus(c)
         \/ DeleteProduct(c) \/ DeleteCategory(c) \/ DeleteContact(c)
         \/ Steps(c)
    \/ Tick

Spec == Init /\ [][Next]_vars

\* two clients, one method each on the products or the orders document,
\* no remote faults: every interleaving of their requests
InitRace ==
    InitWith({EmptyStore, UsedStore}, {[c \in Clients |-> TRUE]}, 0,
             [c \in Clients |-> MaxRaceOps])

NextRace ==
    \E c \in Clients :
      \/ AddProduct(c) \/ SaveOrder(c) \/ DeleteProduct(c)
      \/ Steps(c)

SpecRace == InitRace /\ [][NextRace]_vars

\* a repository with documents of every kind: stored, emptied, missing, garbled
StockedStore ==
    [p \in Paths |->
       CASE p = ProductsPath ->
              Saved(Arr(<< Obj(<< <<"id", Num(1)>>, <<"name", Str("Roti")>> >>) >>))
         [] p = OrdersPath -> Saved(Arr(<<>>))
         [] p = ContactsPath -> Garbled(TRUE)
         [] p = WebsitePath -> Saved(Obj(<< <<"name", Str("Toko")>> >>))
         [] OTHER -> NoFile]

\* one client, the bulk methods and the settings document, remote faults
InitBulk ==
    InitWith({EmptyStore, ClearedStore, StockedStore}, {[c \in Clients |-> TRUE]},
             MaxFaults, [c \in Clients |-> IF c = 1 THEN MaxBulkOps ELSE 0])

NextBulk ==
    \/ \E c \in Clients :
         \/ ExportData(c) \/ ImportData(c) \/ BackupData(c) \/ UpdateWebsiteConfig(c)
         \/ Steps(c)
    \/ Tick

SpecBulk == InitBulk /\ [][NextBulk]_vars

(***************************************************************************)
(* Properties.  A method of client c has finished when pc[c] = "done";     *)
(* hist[c].pre is the store when it was called, so ReadOf(hist[c].pre, p)  *)
(* is what a read just before it returns and ReadOf(store, p) what a read  *)
(* just after it returns.                                                  *)
(***************************************************************************)
Done(c, names) == pc[c] = "done" /\ op[c].name \in names
Succeeded(c) == ~ret[c].thrown
\* no failing remote call, no write of another client in between
Clean(c) == ~hist[c].failed /\ ~hist[c].raced
Before(c) == ReadOf(hist[c].pre, op[c].path)
After(c) == ReadOf(store, op[c].path)
Keys(o) == {o[2][i][1] : i \in 1..Len(o[2])}
Last(arr) == arr[2][Len(arr[2])]

\* C1: after a successful add (addProduct, addCategory, saveOrder,
\* saveContact) with no failing call and no other writer, a read returns the
\* sequence read before followed by one new record, and every field of the
\* input record has its input value in that record.
C1_AddAppends ==
    \A c \in Clients :
      Done(c, Adders \cup Savers) /\ Succeeded(c) /\ Clean(c) =>
        /\ ~Before(c).thrown /\ ~After(c).thrown
        /\ Len(After(c).val[2]) = Len(Before(c).val[2]) + 1
        /\ SubSeq(After(c).val[2], 1, Len(Before(c).val[2])) = Before(c).val[2]
        /\ \A k \in Keys(op[c].arg) :
             GetKey(Last(After(c).val), k) = GetKey(op[c].arg, k)

\* an add of a record that brings its own id, onto a stored document, is done
C1_Witness ==
    \E c \in Clients :
      /\ Done(c, Adders \cup Savers) /\ Succeeded(c) /\ Clean(c)
      /\ HasKey(op[c].arg, "id")
      /\ hist[c].pre[op[c].path] # NoFile
      /\ Len(After(c).val[2]) >= 2

\* C2 as stated: with no products document in the store, a successful
\* addProduct returns a record with a numeric id and the next getProducts
\* returns exactly that one record.
C2_OneElementList ==
    \A c \in Clients :
      Done(c, {"addProduct"}) /\ Succeeded(c) /\ Clean(c)
         /\ hist[c].pre[ProductsPath] = NoFile =>
        /\ GetKey(ret[c].val, "id")[1] = "num"
        /\ After(c) = Value(Arr(<<ret[c].val>>))

\* C2 amended: with no products document in the store, a successful
\* addProduct(p) returns a record whose id is p's own id when p has one and a
\* number otherwise, and the next getProducts returns the five built-in
\* default products followed by that record.
C2_DefaultsThenRecord ==
    \A c \in Clients :
      Done(c, {"addProduct"}) /\ Succeeded(c) /\ Clean(c)
         /\ hist[c].pre[ProductsPath] = NoFile =>
        /\ IF HasKey(op[c].arg, "id")
           THEN GetKey(ret[c].val, "id") = GetKey(op[c].arg, "id")
           ELSE GetKey(ret[c].val, "id")[1] = "num"
        /\ After(c) = Value(push(getDefaultData(ProductsPath), ret[c].val))
        /\ Len(After(c).val[2]) = 6

C2_Witness ==
    \E c \in Clients :
      /\ Done(c, {"addProduct"}) /\ Succeeded(c) /\ Clean(c)
      /\ hist[c].pre[ProductsPath] = NoFile
      /\ ~HasKey(op[c].arg, "id")
      /\ store[ProductsPath] # NoFile

\* the patch an update applies
PatchOf(o) ==
    IF o.name = "updateOrderStatus" THEN Obj(<< <<"status", o.arg>> >>) ELSE o.arg
AllUpdaters == Updaters \cup {"updateOrderStatus"}

\* C3: an update (updateProduct, updateCategory, updateOrderStatus) with no
\* failing call and no other writer: when a record has the id, a following
\* read returns the same sequence with the patch overlaid on the first such
\* record, its other fields and all other records unchanged; when none has
\* it, the method throws not-found, sends no write, and the store is unchanged.
C3_UpdateOverlays ==
    \A c \in Clients :
      Done(c, AllUpdaters) /\ Clean(c) /\ ~Before(c).thrown =>
        LET S == Before(c).val[2]
            i == findIndex(Before(c).val, op[c].id)
            patch == PatchOf(op[c])
        IN  IF i = 0
            THEN /\ ret[c] = Thrown(NotFoundError)
                 /\ hist[c].writes = 0
                 /\ store = hist[c].pre
            ELSE /\ Succeeded(c)
                 /\ ~After(c).thrown
                 /\ LET T == After(c).val[2]
                    IN  /\ Len(T) = Len(S)
                        /\ \A j \in 1..Len(S) : j # i => T[j] = S[j]
                        /\ Keys(T[i]) = Keys(S[i]) \cup Keys(patch)
                        /\ \A k \in Keys(patch) : GetKey(T[i], k) = GetKey(patch, k)
                        /\ \A k \in Keys(S[i]) \ Keys(patch) :
                             GetKey(T[i], k) = GetKey(S[i], k)

\* an update has overlaid a patch on a record that has a field outside it
C3_Witness ==
    \E c \in Clients :
      /\ Done(c, AllUpdaters) /\ Clean(c) /\ Succeeded(c) /\ ~Before(c).thrown
      /\ LET i == findIndex(Before(c).val, op[c].id)
         IN  /\ i # 0
             /\ Keys(Before(c).val[2][i]) \ Keys(PatchOf(op[c])) # {}
             /\ After(c).val[2][i] # Before(c).val[2][i]

\* C4: a delete (deleteProduct, deleteCategory, deleteContact) that succeeds
\* with no failing call and no other writer: a following read returns the
\* records read before whose id differs, in their order; when no record had
\* the id, exactly one write request was sent and the read is the same.
C4_DeleteFilters ==
    \A c \in Clients :
      Done(c, Deleters) /\ Succeeded(c) /\ Clean(c) =>
        LET Kept(x) == GetKey(x, "id") # op[c].id
        IN  /\ ~Before(c).thrown /\ ~After(c).thrown
            /\ After(c).val[2] = SelectSeq(Before(c).val[2], Kept)
            /\ findIndex(After(c).val, op[c].id) = 0
            /\ findIndex(Before(c).val, op[c].id) = 0 =>
                 hist[c].writes = 1 /\ After(c) = Before(c)

\* a delete has removed a record and kept another
C4_Witness ==
    \E c \in Clients :
      /\ Done(c, Deleters) /\ Succeeded(c) /\ Clean(c)
      /\ findIndex(Before(c).val, op[c].id) # 0
      /\ Len(After(c).val[2]) >= 1

\* C5 as stated: getFile answers with the built-in default exactly when its
\* GET was answered with status 404; every other failure is thrown.
C5_DefaultOnlyOn404 ==
    \A c \in Clients :
      /\ hist[c].gf.fellBack <=> hist[c].gf.status = 404
      /\ hist[c].gf.status \notin {0, 200, 404} => hist[c].gf.thrown

\* C7 as stated: in a saveFile invocation a POST is sent only after its own
\* GET was answered 404, a GET answered neither 200 nor 404 is followed by no
\* request, and at most one write request is sent.
C7_OneWritePerSave ==
    \A c \in Clients :
      LET log == sv[c].log
      IN  /\ \A i \in 1..Len(log) : log[i].m = "POST" => log[1].status = 404
          /\ Len(log) > 1 => log[1].status \in {200, 404}
          /\ Cardinality({i \in 1..Len(log) : log[i].m # "GET"}) <= 1

\* C9 as stated: no two records of a stored sequence document have the
\* same id.
C9_UniqueIds ==
    \A p \in SeqPaths :
      store[p] # NoFile /\ ~ReadOf(store, p).thrown =>
        LET S == ReadOf(store, p).val[2]
        IN  \A i, j \in 1..Len(S) :
              i # j /\ HasKey(S[i], "id") /\ HasKey(S[j], "id") =>
                GetKey(S[i], "id") # GetKey(S[j], "id")

Has(arr, x) == \E i \in 1..Len(arr[2]) : arr[2][i] = x

\* two adds on one document, both returned normally, no call of either failed
BothAdded(c, d) ==
    /\ c # d
    /\ Done(c, Adders \cup Savers) /\ Done(d, Adders \cup Savers)
    /\ op[c].path = op[d].path
    /\ Succeeded(c) /\ Succeeded(d)
    /\ ~hist[c].failed /\ ~hist[d].failed

\* C8: under a store that takes an update only with the current sha, when
\* two clients' adds on one document were computed from the same read and
\* both return normally, the stored document is that read followed by one
\* record only, the record of one of the two: the other add is lost without
\* an error.
C8_LastWriterWins ==
    \A c, d \in Clients :
      BothAdded(c, d) /\ hist[c].gf.val = hist[d].gf.val =>
        /\ ~After(c).thrown
        /\ After(c).val \in {push(hist[c].gf.val, ret[c].val),
                             push(hist[c].gf.val, ret[d].val)}

\* both adds returned normally and the first client's record is not stored
C8_LostUpdate ==
    \E c, d \in Clients :
      /\ BothAdded(c, d)
      /\ hist[c].gf.val = hist[d].gf.val
      /\ ret[c].val # ret[d].val
      /\ ~Has(After(c).val, ret[c].val)
      /\ Has(After(c).val, ret[d].val)

BackupsStored == {p \in BackupPaths : store[p] # NoFile}

\* C10 as stated: every successful backupData adds a backup document, so
\* the store holds as many backup documents as backupData calls succeeded.
C10_OneDocumentPerBackup ==
    Cardinality(BackupsStored) = hist[1].backups + hist[2].backups

\* C6: an importData of what the exportData just before it returned, with
\* no failing call in either, succeeds and leaves every one of the five documents
\* reading as it read before the export; an importData of a payload without
\* products or without categories throws the validation error and writes
\* nothing.
C6_RoundTrip ==
    \A c \in Clients :
      /\ Done(c, {"importData"}) /\ hist[c].rt /\ Clean(c) =>
           /\ Succeeded(c)
           /\ \A i \in 1..5 :
                ReadOf(store, DataPaths[i]) = ReadOf(hist[c].pre0, DataPaths[i])
      /\ Done(c, {"importData"})
           /\ (~HasKey(op[c].arg, "products") \/ ~HasKey(op[c].arg, "categories")) =>
           /\ ret[c] = Thrown(Wrap("Failed to import data: ", ValidationError))
           /\ hist[c].writes = 0
           /\ store = hist[c].pre

\* an import of the preceding export has written all five documents, one of
\* them missing before and one of them an empty sequence
C6_Witness ==
    \E c \in Clients :
      /\ Done(c, {"importData"}) /\ hist[c].rt /\ Clean(c) /\ Succeeded(c)
      /\ hist[c].writes = 5
      /\ hist[c].pre0[CategoriesPath] = NoFile
      /\ hist[c].pre0[OrdersPath] = Saved(Arr(<<>>))

====
